---------------------------- MODULE Spec2Model ----------------------------
(***************************************************************************)
(* Inventory and billing core of the management app (Django).              *)
(*                                                                         *)
(* Units.  A DecimalField with two places (quantity_kg, price_per_unit,    *)
(* other_expenses, amount) is an integer number of hundredths.             *)
(* raw_material_ratio (two places) is an integer number of hundredths too. *)
(* current_stock_kg is an integer number of ten-thousandths of a kg: the   *)
(* scale at which quantity_kg * raw_material_ratio is exact, so the        *)
(* database arithmetic of the F() expressions is modelled without loss.    *)
(*                                                                         *)
(* Requests.  Every admin save runs inside the transaction that            *)
(* ModelAdmin.changeform_view opens: the statements a handler issues are   *)
(* pending (req[p].writes) until the view returns, and are                  *)
(* discarded when it raises.  An UPDATE takes the row's lock until then.   *)
(***************************************************************************)
EXTENDS Integers, Sequences, FiniteSets, TLC

VARIABLES
    stock,        \* committed current_stock_kg of every RawMaterial / FinishedProduct row
    purchases,    \* committed WheatPurchase rows, by id
    productions,  \* committed Production rows, by id
    bills,        \* committed Bill rows, by id
    items,        \* committed BillItem rows, by id (a deleted row keeps its id)
    expenses,     \* committed Expense rows, by id
    req,          \* the admin requests in flight, one slot per concurrent staff member
    submitted,    \* how many admin requests were submitted so far
    expected,     \* history: per row, the sum of the deltas of the requests that went through
    response      \* what the last view request (bill print, report panel) answered

vars == <<stock, purchases, productions, bills, items, expenses, req, submitted,
          expected, response>>

----------------------------------------------------------------------------
(* Bounds of the model *)

MaxQty == 2        \* the largest quantity a form posts, in hundredths of a kg
MaxRequests == 3   \* admin requests submitted in one run
MaxMoney == 1      \* other_expenses of a bill: 0..MaxMoney hundredths
MaxDay == 2        \* calendar days 1..MaxDay; the last one is today
MaxViewItems == 2  \* BillItem rows in the database a view reads

----------------------------------------------------------------------------
(* Master data *)

RawMaterial == {"wheat"}
FinishedProduct == {"atta", "maida"}
Rows == RawMaterial \cup FinishedProduct
Requests == {1, 2}
\* the quantities posted: the smallest and the largest
Qty == {1, MaxQty}
Money == 0..MaxMoney
Days == 1..MaxDay

\* timezone.now().date()
today == MaxDay

\* BillItemInline.extra: the blank forms the Bill page offers for new items
extra == 1

\* FinishedProduct.raw_material_ratio, in hundredths (default 1.00)
raw_material_ratio(f) == IF f = "atta" THEN 100 ELSE 150

\* a two-place quantity, in stock units (ten-thousandths)
Kg(q) == q * 100

\* obj.quantity_kg * obj.finished_product.raw_material_ratio, in stock units
consumption(q, f) == q * raw_material_ratio(f)

----------------------------------------------------------------------------
(* Helpers *)

RECURSIVE SumFn(_, _)
SumFn(f, S) ==
    IF S = {} THEN 0
    ELSE LET x == CHOOSE y \in S : TRUE
         IN  f[x] + SumFn(f, S \ {x})

RECURSIVE SetToSeq(_)
SetToSeq(S) ==
    IF S = {} THEN <<>>
    ELSE LET m == CHOOSE x \in S : \A y \in S : x <= y
         IN  <<m>> \o SetToSeq(S \ {m})

Idle ==
    [pc |-> "idle", kind |-> "none", change |-> FALSE, raw |-> "wheat",
     fin |-> "atta", qty |-> 1, target |-> 0, mem |-> <<>>,
     writes |-> <<>>, ops |-> <<>>, new |-> <<>>, todo |-> <<>>]

\* the rows a request has updated and not yet committed (it holds their locks)
Locked(p) == DOMAIN req[p].writes

\* the row is not locked by another request's uncommitted UPDATE
Free(p, x) == \A q \in Requests \ {p} : x \notin Locked(q)

\* a request is submitted: the lowest free slot takes it
Submit(p) ==
    /\ req[p].pc = "idle"
    /\ \A q \in Requests : q < p => req[q].pc # "idle"
    /\ submitted < MaxRequests
    /\ submitted' = submitted + 1

LiveItems(b) == {i \in DOMAIN items : items[i].bill = b /\ ~items[i].deleted}

----------------------------------------------------------------------------
(* The F() expression: the new value of current_stock_kg is computed by the *)
(* database from the row's value at the time of the UPDATE, not from the    *)
(* value the model instance was loaded with.                                *)

StockExprInMemory(dbval, memval, delta) == memval + delta

StockExpr(dbval, memval, delta) == dbval + delta

\* instance.current_stock_kg = F('current_stock_kg') + delta; instance.save()
UpdateRow(p, x, delta) ==
    LET w   == req[p].writes
        cur == IF x \in DOMAIN w THEN w[x] ELSE stock[x]
        new == StockExpr(cur, req[p].mem[x], delta)
    IN  [y \in DOMAIN w \cup {x} |-> IF y = x THEN new ELSE w[y]]

----------------------------------------------------------------------------
(* What the database holds once the statements of request r are durable *)

FlushedPurchases(r) ==
    IF r.kind # "purchase" THEN purchases
    ELSE IF r.change
         THEN [purchases EXCEPT ![r.target].quantity_kg = r.qty]
         ELSE Append(purchases, [raw_material |-> r.raw, quantity_kg |-> r.qty,
                                 price_per_unit |-> 1, purchase_date |-> today,
                                 created_kg |-> r.qty])

FlushedProductions(r) ==
    IF r.kind # "production" THEN productions
    ELSE IF r.change
         THEN [productions EXCEPT ![r.target].quantity_kg = r.qty]
         ELSE Append(productions,
                     [raw_material |-> r.raw, finished_product |-> r.fin,
                      quantity_kg |-> r.qty, production_date |-> today,
                      created_kg |-> r.qty,
                      raw_applied |-> r.raw \in DOMAIN r.writes,
                      fin_applied |-> r.fin \in DOMAIN r.writes])

FlushedBills(r) ==
    IF r.kind = "bill" /\ ~r.change
    THEN Append(bills, [has_gst |-> TRUE, other_expenses |-> 0, bill_date |-> today])
    ELSE bills

FlushedItems(r) ==
    LET b == IF r.change THEN r.target ELSE Len(bills) + 1
        kept == [i \in DOMAIN items |->
                   IF i \notin DOMAIN r.ops THEN items[i]
                   ELSE IF r.ops[i] = "delete"
                        THEN [items[i] EXCEPT !.deleted = TRUE]
                   ELSE IF r.ops[i] = "change"
                        THEN [items[i] EXCEPT !.quantity_kg = IF @ = 1 THEN MaxQty ELSE 1]
                   ELSE items[i]]
        added == [k \in 1..Len(r.new) |->
                    [bill |-> b, product |-> r.new[k].product,
                     quantity_kg |-> r.new[k].quantity_kg,
                     price_per_unit |-> 1, deleted |-> FALSE]]
    IN  IF r.kind # "bill" THEN items ELSE kept \o added

FlushedStock(r) ==
    [x \in Rows |-> IF x \in DOMAIN r.writes THEN r.writes[x] ELSE stock[x]]

\* the delta request r means to apply to row x: what its handler adds to or
\* takes from current_stock_kg, summed over its statements
RequestDelta(r, x) ==
    IF r.kind = "purchase" /\ ~r.change
    THEN (IF x = r.raw THEN r.qty * 100 ELSE 0)
    ELSE IF r.kind = "production" /\ ~r.change
    THEN (IF x = r.raw THEN 0 - r.qty * raw_material_ratio(r.fin) ELSE 0)
         + (IF x = r.fin THEN r.qty * 100 ELSE 0)
    ELSE IF r.kind = "bill"
    THEN LET del == {i \in DOMAIN r.ops : r.ops[i] = "delete"}
         IN  SumFn([i \in del |-> IF items[i].product = x
                                   THEN items[i].quantity_kg * 100 ELSE 0], del)
    ELSE 0

Flushed(r) ==
    [stock |-> FlushedStock(r),
     expected |-> [x \in Rows |-> expected[x] + RequestDelta(r, x)], purchases |-> FlushedPurchases(r),
     productions |-> FlushedProductions(r), bills |-> FlushedBills(r),
     items |-> FlushedItems(r)]

Database ==
    [stock |-> stock, expected |-> expected, purchases |-> purchases, productions |-> productions,
     bills |-> bills, items |-> items]

\* without the view's transaction every statement issued so far would stay
OnErrorNoTransaction(r) == Flushed(r)

\* the view raised: transaction.atomic rolls every statement of the request back
OnError(r) == Database

Store(d) ==
    /\ stock' = d.stock
    /\ expected' = d.expected
    /\ purchases' = d.purchases
    /\ productions' = d.productions
    /\ bills' = d.bills
    /\ items' = d.items

DbUnchanged == UNCHANGED <<stock, expected, purchases, productions, bills, items>>

\* the handler's last statement is done and the view returns: the request's
\* transaction commits what request record r holds
Return(p, r) ==
    /\ Store(Flushed(r))
    /\ req' = [req EXCEPT ![p] = Idle]

\* the handler goes on to its next statement
Continue(p, r) ==
    /\ DbUnchanged
    /\ req' = [req EXCEPT ![p] = r]

----------------------------------------------------------------------------
(* The stock adjustment engine: admin.py *)

Init ==
    /\ stock = [x \in Rows |-> 0]
    /\ purchases = <<>>
    /\ productions = <<>>
    /\ bills = <<>>
    /\ items = <<>>
    /\ expenses = <<>>
    /\ req = [p \in Requests |-> Idle]
    /\ submitted = 0
    /\ expected = [x \in Rows |-> 0]
    /\ response = [view |-> "none"]

\* WheatPurchaseAdmin.save_model, line 101: the form is valid, the row is saved
WheatPurchaseAdmin_save_model_super(p) ==
    /\ Submit(p)
    /\ \E change \in BOOLEAN, r \in RawMaterial, q \in Qty :
         \E t \in IF change THEN DOMAIN purchases ELSE {0} :
           /\ change => r = purchases[t].raw_material
           /\ req' = [req EXCEPT ![p] =
                  [Idle EXCEPT !.pc = "wp_104", !.kind = "purchase",
                               !.change = change, !.raw = r, !.qty = q,
                               !.target = t,
                               !.mem = [x \in {r} |-> stock[x]]]]
    /\ DbUnchanged
    /\ UNCHANGED <<expenses, response>>

\* line 107: F('current_stock_kg') + obj.quantity_kg
purchase_delta_subtracted(q) == 0 - Kg(q)

purchase_delta(q) == Kg(q)

\* line 127: F('current_stock_kg') - (obj.quantity_kg * ratio)
production_raw_delta_no_ratio(q, f) == 0 - Kg(q)

production_raw_delta(q, f) == 0 - consumption(q, f)

\* line 130: F('current_stock_kg') + obj.quantity_kg
production_finished_delta(q) == Kg(q)

\* line 70: F('current_stock_kg') + item.quantity_kg
deleted_item_delta(q) == Kg(q)

\* save_model adjusts stock only for a new record (`if not change`)
AdjustsOnEdit(change) == TRUE

AdjustsStock(change) == ~change

\* WheatPurchaseAdmin.save_model, lines 104-111
WheatPurchaseAdmin_save_model_stock(p) ==
    /\ req[p].pc = "wp_104"
    /\ IF AdjustsStock(req[p].change)
       THEN /\ Free(p, req[p].raw)
            /\ Return(p, [req[p] EXCEPT
                            !.writes = UpdateRow(p, req[p].raw, purchase_delta(req[p].qty))])
       ELSE Return(p, req[p])
    /\ UNCHANGED <<expenses, submitted, response>>

\* ProductionAdmin.save_model, line 120
ProductionAdmin_save_model_super(p) ==
    /\ Submit(p)
    /\ \E change \in BOOLEAN, r \in RawMaterial, f \in FinishedProduct, q \in Qty :
         \E t \in IF change THEN DOMAIN productions ELSE {0} :
           /\ change => /\ r = productions[t].raw_material
                         /\ f = productions[t].finished_product
           /\ req' = [req EXCEPT ![p] =
                  [Idle EXCEPT !.pc = "pr_123", !.kind = "production",
                               !.change = change, !.raw = r, !.fin = f,
                               !.qty = q, !.target = t,
                               !.mem = [x \in {r, f} |-> stock[x]]]]
    /\ DbUnchanged
    /\ UNCHANGED <<expenses, response>>

\* ProductionAdmin.save_model, lines 123-128: the raw material is consumed
ProductionAdmin_save_model_raw(p) ==
    /\ req[p].pc = "pr_123"
    /\ IF AdjustsStock(req[p].change)
       THEN /\ Free(p, req[p].raw)
            /\ Continue(p, [req[p] EXCEPT
                              !.pc = "pr_130",
                              !.writes = UpdateRow(p, req[p].raw,
                                           production_raw_delta(req[p].qty, req[p].fin))])
       ELSE Return(p, req[p])
    /\ UNCHANGED <<expenses, submitted, response>>

\* ProductionAdmin.save_model, lines 130-131: the finished product is stocked
ProductionAdmin_save_model_finished(p) ==
    /\ req[p].pc = "pr_130"
    /\ Free(p, req[p].fin)
    /\ Return(p, [req[p] EXCEPT
                    !.writes = UpdateRow(p, req[p].fin, production_finished_delta(req[p].qty))])
    /\ UNCHANGED <<expenses, submitted, response>>

\* the forms the Bill page can post for new items
NewForms ==
    UNION {[1..n -> [product : FinishedProduct, quantity_kg : Qty]] : n \in 0..extra}

\* BillAdmin.save_related, line 55: super().save_related() saves the inline
\* formset: rows marked DELETE are deleted, changed rows are updated, the
\* filled extra forms are inserted.  A form marked DELETE posts the row's
\* stored data; a changed form posts another quantity.
BillAdmin_save_related_super(p) ==
    /\ Submit(p)
    /\ \E change \in BOOLEAN :
         \E b \in IF change THEN DOMAIN bills ELSE {0} :
           \E ops \in [LiveItems(b) -> {"keep", "change", "delete"}], new \in NewForms :
             /\ req' = [req EXCEPT ![p] =
                    [Idle EXCEPT !.pc = "bill_58", !.kind = "bill",
                                 !.change = change, !.target = b,
                                 !.ops = ops, !.new = new,
                                 !.mem = [x \in {items[i].product :
                                              i \in {j \in DOMAIN ops : ops[j] = "delete"}}
                                          |-> stock[x]]]]
    /\ DbUnchanged
    /\ UNCHANGED <<expenses, response>>

\* formset.save_existing_objects(), called a second time at line 60: the model
\* instances (not forms) of the initial forms that changed and were not deleted
save_existing_objects(p) == {i \in DOMAIN req[p].ops : req[p].ops[i] = "change"}

\* formset.deleted_forms, line 67
deleted_forms(p) == SetToSeq({i \in DOMAIN req[p].ops : req[p].ops[i] = "delete"})

\* BillAdmin.save_related, lines 58-64: `form.instance` on a BillItem raises
\* AttributeError as soon as the list is not empty, and the request fails;
\* the filled extra forms are not in the list
BillAdmin_save_related_existing(p) ==
    /\ req[p].pc = "bill_58"
    /\ IF save_existing_objects(p) # {}
       THEN /\ Store(OnError(req[p]))
            /\ req' = [req EXCEPT ![p] = Idle]
       ELSE IF deleted_forms(p) = <<>>
       THEN Return(p, req[p])
       ELSE Continue(p, [req[p] EXCEPT !.pc = "bill_67", !.todo = deleted_forms(p)])
    /\ UNCHANGED <<expenses, submitted, response>>

\* BillAdmin.save_related, lines 67-71: one deleted form's stock is re-added
BillAdmin_save_related_deleted(p) ==
    /\ req[p].pc = "bill_67"
    /\ LET item == items[Head(req[p].todo)]
           r == [req[p] EXCEPT
                   !.todo = Tail(req[p].todo),
                   !.writes = UpdateRow(p, item.product, deleted_item_delta(item.quantity_kg))]
       IN  /\ Free(p, item.product)
           /\ IF r.todo = <<>> THEN Return(p, r) ELSE Continue(p, r)
    /\ UNCHANGED <<expenses, submitted, response>>

\* the request fails part-way (a database error, a lost connection)
Fail(p) ==
    /\ req[p].pc # "idle"
    /\ Store(OnError(req[p]))
    /\ req' = [req EXCEPT ![p] = Idle]
    /\ UNCHANGED <<expenses, submitted, response>>

Next ==
    \E p \in Requests :
        \/ WheatPurchaseAdmin_save_model_super(p)
        \/ WheatPurchaseAdmin_save_model_stock(p)
        \/ ProductionAdmin_save_model_super(p)
        \/ ProductionAdmin_save_model_raw(p)
        \/ ProductionAdmin_save_model_finished(p)
        \/ BillAdmin_save_related_super(p)
        \/ BillAdmin_save_related_existing(p)
        \/ BillAdmin_save_related_deleted(p)
        \/ Fail(p)

Spec == Init /\ [][Next]_vars

----------------------------------------------------------------------------
(* The billing calculator: models.py.  A subtotal (quantity * price) is in  *)
(* ten-thousandths, a GST amount (subtotal * 0.18) and a grand total in     *)
(* millionths of a rupee.                                                   *)

\* the rows of bill b's related manager `items`
bill_items(b) == {i \in DOMAIN items : items[i].bill = b /\ ~items[i].deleted}

\* queryset.aggregate(total=Sum(expr)): NULL (None) over no rows
RECURSIVE SumRows(_, _, _)
SumRows(val, rows, n) ==
    IF n = 0 THEN 0
    ELSE (IF n \in rows THEN val[n] ELSE 0) + SumRows(val, rows, n - 1)

Aggregate(val, rows) ==
    [is_none |-> rows = {}, total |-> SumRows(val, rows, Len(val))]

\* Bill.get_subtotal
get_subtotal(b) ==
    LET subtotal == Aggregate([i \in DOMAIN items |->
                                 items[i].quantity_kg * items[i].price_per_unit],
                              bill_items(b))
    IN  IF subtotal.is_none THEN 0 ELSE subtotal.total

get_gst_amount_always(b) == get_subtotal(b) * 18

\* Bill.get_gst_amount: Decimal('0.18') of the subtotal
get_gst_amount(b) ==
    IF bills[b].has_gst THEN get_subtotal(b) * 18 ELSE 0

\* Bill.get_grand_total
get_grand_total(b) ==
    get_subtotal(b) * 100 + get_gst_amount(b) + bills[b].other_expenses * 10000

\* views.bill_print_view
bill_print_view(bill_id) ==
    /\ response' =
         IF bill_id \notin DOMAIN bills
         THEN [view |-> "bill_print", bill_id |-> bill_id, status |-> 404]
         ELSE [view |-> "bill_print", bill_id |-> bill_id, status |-> 200,
               bill_items |-> bill_items(bill_id),
               subtotal |-> get_subtotal(bill_id),
               gst |-> get_gst_amount(bill_id),
               grand_total |-> get_grand_total(bill_id)]
    /\ DbUnchanged
    /\ UNCHANGED <<expenses, req, submitted>>

InitBillPrint ==
    /\ stock = [x \in Rows |-> 0]
    /\ expected = [x \in Rows |-> 0]
    /\ purchases = <<>>
    /\ productions = <<>>
    /\ bills \in [1..2 -> [has_gst : BOOLEAN, other_expenses : Money,
                            bill_date : {today}]]
    /\ items \in UNION {[1..n -> [bill : 1..2, product : {"atta"}, quantity_kg : Qty,
                                   price_per_unit : Qty, deleted : {FALSE}]]
                         : n \in 0..MaxViewItems}
    /\ expenses = <<>>
    /\ req = [p \in Requests |-> Idle]
    /\ submitted = 0
    /\ response = [view |-> "none"]

NextBillPrint == \E bill_id \in 1..3 : bill_print_view(bill_id)

SpecBillPrint == InitBillPrint /\ [][NextBillPrint]_vars

----------------------------------------------------------------------------
(* The reporting aggregator: views.report_panel_view *)

\* the names an F() or values() reference can resolve to on each model: its
\* fields and reverse relations (models.py), not its methods
Bill_fields ==
    {"id", "customer", "bill_date", "is_paid", "other_expenses", "has_gst", "items"}
Production_fields ==
    {"id", "production_date", "raw_material", "finished_product", "quantity_kg"}

\* a query-string date: absent, unparsable, or YYYY-MM-DD of a day
DateParams ==
    {[kind |-> "none", day |-> 0], [kind |-> "bad", day |-> 0]}
      \cup {[kind |-> "date", day |-> d] : d \in Days}

ReportTypes ==
    {"none", "daily_sales", "weekly_sales", "monthly_sales", "sales_profit",
     "production_summary", "expense_summary", "inventory_summary", "other"}

\* lines 39-51: both dates given and parsable, or the trailing 30 days
date_range(start_date, end_date) ==
    IF start_date.kind # "none" /\ end_date.kind # "none"
       /\ start_date.kind = "date" /\ end_date.kind = "date"
    THEN [start_date |-> start_date.day, end_date |-> end_date.day]
    ELSE [start_date |-> today - 30, end_date |-> today]

\* the rows of a table whose date lies in the inclusive range
in_range(table, field, range) ==
    {i \in DOMAIN table :
        range.start_date <= table[i][field] /\ table[i][field] <= range.end_date}

\* Sum(F(name)) over rows of a model: the name must resolve to a field
sum_of_field(table, rows, fields, name) ==
    IF name \notin fields
    THEN [error |-> "FieldError", is_none |-> TRUE, total |-> 0]
    ELSE [error |-> "", is_none |-> rows = {},
          total |-> SumRows([i \in DOMAIN table |-> table[i][name]], rows, Len(table))]

\* `aggregate(...)[key] or 0`
or_zero(agg) == IF agg.is_none THEN 0 ELSE agg.total

\* lines 74-84 of the sales_profit branch; money in hundredths for amounts,
\* ten-thousandths for purchase costs
sales_profit(range) ==
    LET total_sales == sum_of_field(bills, in_range(bills, "bill_date", range),
                                    Bill_fields, "get_grand_total")
        exp_rows == in_range(expenses, "date", range)
        total_expenses ==
            or_zero(Aggregate([i \in DOMAIN expenses |-> expenses[i].amount], exp_rows))
        pur_rows == in_range(purchases, "purchase_date", range)
        total_wheat_purchase ==
            or_zero(Aggregate([i \in DOMAIN purchases |->
                                 purchases[i].quantity_kg * purchases[i].price_per_unit],
                              pur_rows))
    IN  IF total_sales.error # ""
        THEN [status |-> 500, error |-> total_sales.error]
        ELSE [status |-> 200, error |-> "",
              total_sales |-> or_zero(total_sales) * 10000,
              total_expenses |-> total_expenses * 100 + total_wheat_purchase,
              profit_or_loss |-> or_zero(total_sales) * 10000
                                   - (total_expenses * 100 + total_wheat_purchase)]

\* lines 59-71: the three sales reports annotate Sum(F('get_grand_total'))
sales_by_period(range) ==
    LET total_sales == sum_of_field(bills, in_range(bills, "bill_date", range),
                                    Bill_fields, "get_grand_total")
    IN  IF total_sales.error # ""
        THEN [status |-> 500, error |-> total_sales.error]
        ELSE [status |-> 200, error |-> "", sales |-> or_zero(total_sales)]

\* lines 86-90: values('product__name')
production_summary(range) ==
    IF "product" \notin Production_fields
    THEN [status |-> 500, error |-> "FieldError"]
    ELSE [status |-> 200, error |-> "",
          production |-> in_range(productions, "production_date", range)]

\* lines 92-96: the amounts summed per description, ordered by description
expense_summary(range) ==
    LET rows == in_range(expenses, "date", range)
        names == {expenses[i].description : i \in rows}
    IN  [status |-> 200, error |-> "",
         expenses |-> [d \in names |->
                         SumRows([i \in DOMAIN expenses |-> expenses[i].amount],
                                 {i \in rows : expenses[i].description = d},
                                 Len(expenses))]]

\* lines 98-105
inventory_summary ==
    [status |-> 200, error |-> "",
     raw_materials |-> [r \in RawMaterial |-> stock[r]],
     finished_products |-> [f \in FinishedProduct |-> stock[f]]]

\* views.report_panel_view
report_panel_view(type, start_date, end_date) ==
    LET report_type == IF type = "none" THEN "daily_sales" ELSE type
        range == date_range(start_date, end_date)
        data ==
            IF report_type \in {"daily_sales", "weekly_sales", "monthly_sales"}
            THEN sales_by_period(range)
            ELSE IF report_type = "sales_profit" THEN sales_profit(range)
            ELSE IF report_type = "production_summary" THEN production_summary(range)
            ELSE IF report_type = "expense_summary" THEN expense_summary(range)
            ELSE IF report_type = "inventory_summary" THEN inventory_summary
            ELSE [status |-> 200, error |-> ""]
    IN  /\ response' = [view |-> "report_panel", report_type |-> report_type,
                        range |-> range, status |-> data.status, data |-> data]
        /\ DbUnchanged
        /\ UNCHANGED <<expenses, req, submitted>>

InitReport ==
    /\ stock = [x \in Rows |-> 0]
    /\ expected = [x \in Rows |-> 0]
    /\ purchases \in UNION {[1..n -> [raw_material : RawMaterial, quantity_kg : Qty,
                                       price_per_unit : {1}, purchase_date : Days,
                                       created_kg : {1}]] : n \in 0..1}
    /\ productions = <<>>
    /\ bills \in UNION {[1..n -> [has_gst : {TRUE}, other_expenses : {0},
                                   bill_date : Days]] : n \in 0..2}
    /\ items \in UNION {[1..n -> [bill : DOMAIN bills, product : {"atta"},
                                   quantity_kg : Qty, price_per_unit : {1},
                                   deleted : {FALSE}]] : n \in 0..1}
    /\ expenses \in UNION {[1..n -> [description : {"fuel", "rent"}, amount : {1},
                                      date : Days]] : n \in 0..1}
    /\ req = [p \in Requests |-> Idle]
    /\ submitted = 0
    /\ response = [view |-> "none"]

NextReport ==
    \E type \in ReportTypes, start_date \in DateParams, end_date \in DateParams :
        report_panel_view(type, start_date, end_date)

SpecReport == InitReport /\ [][NextReport]_vars

----------------------------------------------------------------------------
(* Totals over the committed records, in stock units *)

PurchasedKg(r) ==
    SumFn([i \in DOMAIN purchases |->
             IF purchases[i].raw_material = r
             THEN purchases[i].created_kg * 100 ELSE 0], DOMAIN purchases)

ConsumedKg(r) ==
    SumFn([i \in DOMAIN productions |->
             IF productions[i].raw_material = r
             THEN productions[i].created_kg
                    * raw_material_ratio(productions[i].finished_product)
             ELSE 0], DOMAIN productions)

ProducedKg(f) ==
    SumFn([i \in DOMAIN productions |->
             IF productions[i].finished_product = f
             THEN productions[i].created_kg * 100 ELSE 0], DOMAIN productions)

\* the BillItem rows that exist for product f
BilledKg(f) ==
    SumFn([i \in DOMAIN items |->
             IF items[i].product = f /\ ~items[i].deleted
             THEN items[i].quantity_kg * 100 ELSE 0], DOMAIN items)

\* the quantity the new forms of request p add for product f
NewKg(p, f) ==
    SumFn([k \in DOMAIN req[p].new |->
             IF req[p].new[k].product = f
             THEN req[p].new[k].quantity_kg * 100 ELSE 0], DOMAIN req[p].new)

----------------------------------------------------------------------------
(* Claims *)

\* request p ends in this step: its view returns (and commits) or fails
Ends(p) == req[p].pc # "idle" /\ req'[p].pc = "idle"

\* C1: a Bill save that adds a BillItem (F, Q) decreases F.current_stock_kg
\* by exactly Q, for every newly added item (stated for a save that deletes
\* nothing, so that the new items are the only adjustment).
C1_NewItemDeducted ==
    [][\A p \in Requests :
          (/\ Ends(p)
           /\ req[p].kind = "bill"
           /\ req[p].new # <<>>
           /\ \A i \in DOMAIN req[p].ops : req[p].ops[i] = "keep"
           /\ Len(items') = Len(items) + Len(req[p].new))
          => \A f \in FinishedProduct : stock'[f] = stock[f] - NewKg(p, f)]_vars

\* C2: round trip: once every BillItem that was added has been deleted again
\* (and nothing else touched the finished products), every finished
\* product's stock is back at its value before the items were added.
C2_RoundTrip ==
    (/\ items # <<>>
     /\ \A i \in DOMAIN items : items[i].deleted
     /\ productions = <<>>)
    => \A f \in FinishedProduct : stock[f] = 0

\* C3: creating a WheatPurchase of quantity Q for raw material R increases
\* R.current_stock_kg by exactly Q and changes no other balance; after N
\* purchases R's stock has grown by the sum of their quantities (what the
\* productions consumed set apart).
C3_PurchaseStep ==
    \A p \in Requests :
        (/\ Ends(p)
         /\ req[p].kind = "purchase"
         /\ ~req[p].change
         /\ Len(purchases') = Len(purchases) + 1)
        => stock' = [stock EXCEPT ![req[p].raw] = @ + req[p].qty * 100]

C3_PurchasesSum ==
    \A r \in RawMaterial : stock[r] + ConsumedKg(r) = PurchasedKg(r)

C3_PurchaseCreated == [][C3_PurchaseStep]_vars /\ []C3_PurchasesSum

C3_Witness ==
    /\ Len(purchases) = 2
    /\ productions = <<>>
    /\ stock["wheat"] = (purchases[1].created_kg + purchases[2].created_kg) * 100

\* C4: creating a Production of quantity Q from raw material R into product F
\* with ratio k decreases R's stock by Q*k and increases F's stock by Q,
\* whatever R's stock is (it may become negative).
C4_ProductionStep ==
    \A p \in Requests :
        (/\ Ends(p)
         /\ req[p].kind = "production"
         /\ ~req[p].change
         /\ Len(productions') = Len(productions) + 1)
        => stock' = [stock EXCEPT
                       ![req[p].raw] = @ - req[p].qty * raw_material_ratio(req[p].fin),
                       ![req[p].fin] = @ + req[p].qty * 100]

C5_ProductionAtomic ==
    \A i \in DOMAIN productions :
        productions[i].raw_applied <=> productions[i].fin_applied

\* a production is part-way: its raw-material UPDATE is issued and pending,
\* and no other request sees it
C5_Witness ==
    \E p \in Requests :
        /\ req[p].pc = "pr_130"
        /\ req[p].raw \in DOMAIN req[p].writes
        /\ req[p].writes[req[p].raw] # stock[req[p].raw]

\* C6: re-saving an existing WheatPurchase or Production, with any new
\* quantity, leaves every stock balance unchanged.
C6_EditStep ==
    \A p \in Requests :
        (Ends(p) /\ req[p].kind \in {"purchase", "production"} /\ req[p].change)
        => stock' = stock

C7_NoLostUpdate == \A x \in Rows : stock[x] = expected[x]

\* a request holds a pending update of a row that another request changed
\* after the first one loaded it
C7_Witness ==
    \E p \in Requests :
        \E x \in DOMAIN req[p].writes :
            req[p].mem[x] # stock[x]

\* C8: for every Bill, grand_total = subtotal + gst_amount + other_expenses,
\* the subtotal is the sum of quantity_kg * price_per_unit over the bill's
\* items (0 for none), the GST is 18% of it when has_gst and 0 otherwise; a
\* bill without items has grand_total = other_expenses.
C8_BillTotals ==
    (response.view = "bill_print" /\ response.status = 200) =>
        LET b == bills[response.bill_id]
            mine == {i \in DOMAIN items : items[i].bill = response.bill_id}
            sum == SumFn([i \in mine |->
                            items[i].quantity_kg * items[i].price_per_unit], mine)
        IN  /\ response.subtotal = sum
            /\ response.gst = IF b.has_gst THEN (sum * 18) ELSE 0
            /\ response.grand_total
                 = response.subtotal * 100 + response.gst + b.other_expenses * 10000
            /\ mine = {} => /\ response.subtotal = 0
                            /\ response.gst = 0
                            /\ response.grand_total = b.other_expenses * 10000

\* a bill without GST, with two items and other expenses, next to another
\* bill's item, was printed
C8_Witness ==
    /\ response.view = "bill_print"
    /\ response.status = 200
    /\ ~bills[response.bill_id].has_gst
    /\ bills[response.bill_id].other_expenses > 0
    /\ response.subtotal > 0
    /\ response.gst = 0
    /\ \E i \in DOMAIN items : items[i].bill # response.bill_id

\* C9: the sales_profit report over a date range answers with total_sales =
\* the sum of the grand totals of the bills in the range and profit_or_loss =
\* total_sales - (expenses in range + purchase costs in range), every empty
\* sum counting as 0 (all in millionths).
C9_SalesProfit ==
    (response.view = "report_panel" /\ response.report_type = "sales_profit") =>
        LET range == response.range
            in_bills == {b \in DOMAIN bills :
                           range.start_date <= bills[b].bill_date
                           /\ bills[b].bill_date <= range.end_date}
            in_exp == {e \in DOMAIN expenses :
                           range.start_date <= expenses[e].date
                           /\ expenses[e].date <= range.end_date}
            in_pur == {w \in DOMAIN purchases :
                           range.start_date <= purchases[w].purchase_date
                           /\ purchases[w].purchase_date <= range.end_date}
            sales == SumFn([b \in in_bills |-> get_grand_total(b)], in_bills)
            costs == SumFn([e \in in_exp |-> expenses[e].amount * 10000], in_exp)
                     + SumFn([w \in in_pur |->
                                purchases[w].quantity_kg * purchases[w].price_per_unit
                                  * 100], in_pur)
        IN  /\ response.status = 200
            /\ response.data.total_sales = sales
            /\ response.data.profit_or_loss = sales - costs

\* C10: every finished product's stock equals its initial stock plus what the
\* Productions created for it produced minus the quantity of the BillItems
\* that exist for it.
C10_FinishedConservation ==
    \A f \in FinishedProduct : stock[f] = ProducedKg(f) - BilledKg(f)

==============================================================================
